---------------------------- MODULE Spec2Model ----------------------------
(***************************************************************************)
(* A model of RunPhase2 (src/src/phase2.hpp), the backpropagation pass of  *)
(* the plotter: tables 7..2 are scanned twice each (mark the entries of    *)
(* the table below that are referenced, then remap pos/offset and sort),   *)
(* and table 1 is compacted at the end.                                    *)
(*                                                                         *)
(* Files are sequences of bytes, entries are entry_size bytes wide and are *)
(* bit-packed most significant bit first.  The collaborators that are not  *)
(* part of phase2.hpp (Util, Bits, FileDisk, EntrySizes, bitfield_index,   *)
(* SortManager) are modelled from their documented contracts.              *)
(***************************************************************************)
EXTENDS Integers, Sequences, FiniteSets

VARIABLES
    k,                  \* parameter k (pos_size = k)
    memory_size,        \* parameter memory_size, in bytes
    disk,               \* tmp_1_disks: table index -> the bytes of its file
    table_sizes,        \* parameter table_sizes: table index -> entry count
    new_table_sizes,    \* the vector the call returns
    next_bitfield,      \* Liveness Set being built for table_index - 1
    current_bitfield,   \* Liveness Set that prunes table_index
    table_index,        \* loop variable of the main loop, then 1
    pc,                 \* position in RunPhase2
    read_index,         \* entries processed so far in the current scan
    read_cursor,        \* byte offset of the next chunk / table-1 entry
    write_counter,      \* survivors emitted so far
    sort_manager,       \* entries handed to AddToCache, in submission order
    read_counter,       \* table-1 compaction: index of the entry examined
    write_cursor,       \* table-1 compaction: byte offset of the next write
    orig,               \* the files as they were when the call started
    liveness,           \* table index -> the Liveness Set that pruned it
    run,                \* 1 for a first call, 2 for a call on its output
    strayed             \* has the call accessed a bitfield out of bounds?

vars == <<k, memory_size, disk, table_sizes, new_table_sizes, next_bitfield,
          current_bitfield, table_index, pc, read_index, read_cursor,
          write_counter, sort_manager, read_counter, write_cursor, orig,
          liveness, run, strayed>>

---------------------------------------------------------------------------
(* Bounds of the model and the program's constants.                        *)

\* Entries a table may hold beyond its first one, summed over all tables.
MaxExtra == 2

\* The values of k the inputs are drawn from.
KValues == {2}

\* The memory budgets the inputs are drawn from: too small for one entry,
\* one entry per chunk (with a remainder to round off), two per chunk.
MemorySizes == {3, 7, 9}

\* Width in bits of the offset field.
kOffsetSize == 10

Tables == 1..7

---------------------------------------------------------------------------
(* Bit and byte helpers.                                                   *)

RECURSIVE Pow2(_)
Pow2(n) == IF n <= 0 THEN 1 ELSE 2 * Pow2(n - 1)

Min(a, b) == IF a < b THEN a ELSE b

\* Util::ByteAlign: the next multiple of 8.
ByteAlign(num_bits) == num_bits + ((8 - (num_bits % 8)) % 8)

\* The big-endian value of a byte sequence.
RECURSIVE BytesToInt(_)
BytesToInt(bytes) ==
    IF Len(bytes) = 0 THEN 0
    ELSE 256 * BytesToInt(SubSeq(bytes, 1, Len(bytes) - 1)) + bytes[Len(bytes)]

\* The n big-endian bytes of a value.
RECURSIVE IntToBytes(_, _)
IntToBytes(value, n) ==
    IF n = 0 THEN << >>
    ELSE Append(IntToBytes(value \div 256, n - 1), value % 256)

\* Util::SliceInt64FromBytes: num_bits bits of the bytes, from start_bit.
SliceInt64FromBytes(bytes, start_bit, num_bits) ==
    LET total == 8 * Len(bytes)
    IN  IF start_bit + num_bits > total
        THEN (BytesToInt(bytes) * Pow2(start_bit + num_bits - total)) % Pow2(num_bits)
        ELSE (BytesToInt(bytes) \div Pow2(total - start_bit - num_bits)) % Pow2(num_bits)

\* Bits(value, size): a bit string of the given size.
Bits(value, size) == [value |-> value % Pow2(size), size |-> size]

\* Bits::operator+=: concatenation.
BitsAppend(a, b) == [value |-> a.value * Pow2(b.size) + b.value, size |-> a.size + b.size]

\* Bits::ToBytes: the bits left-packed into whole bytes, zero bits after them.
BitsToBytes(b) ==
    IntToBytes(b.value * Pow2(ByteAlign(b.size) - b.size), ByteAlign(b.size) \div 8)

\* EntrySizes::GetMaxEntrySize(k, table_index, false): the bytes of one entry,
\* the smallest whole number of bytes that holds the table's layout.
GetMaxEntrySize(kk, t) ==
    IF t = 1 THEN ByteAlign(kk) \div 8
    ELSE IF t = 7 THEN ByteAlign(kk + kk + kOffsetSize) \div 8
    ELSE ByteAlign((kk + 1) + kk + kOffsetSize) \div 8

---------------------------------------------------------------------------
(* FileDisk.                                                               *)

\* FileDisk::Read(begin, buffer, length); bytes past the end read as 0.
DiskRead(file, begin, length) ==
    [j \in 1..length |-> IF begin + j <= Len(file) THEN file[begin + j] ELSE 0]

\* FileDisk::Write(begin, buffer, length); the file grows when needed.
DiskWrite(file, begin, bytes) ==
    LET newlen == IF begin + Len(bytes) > Len(file) THEN begin + Len(bytes) ELSE Len(file)
    IN  [j \in 1..newlen |->
            IF j > begin /\ j <= begin + Len(bytes) THEN bytes[j - begin]
            ELSE IF j <= Len(file) THEN file[j] ELSE 0]

\* FileDisk::Truncate(new_size).
DiskTruncate(file, new_size) ==
    [j \in 1..new_size |-> IF j <= Len(file) THEN file[j] ELSE 0]

---------------------------------------------------------------------------
(* The inputs: the seven tables an earlier phase leaves behind.            *)

\* A bit string zero-padded to a whole entry of entry_size bytes.
EncodeEntry(b, entry_size) ==
    IntToBytes(b.value * Pow2(8 * entry_size - b.size), entry_size)

\* The concatenation of a sequence of byte sequences.
RECURSIVE Flatten(_)
Flatten(seqs) ==
    IF Len(seqs) = 0 THEN << >>
    ELSE Flatten(SubSeq(seqs, 1, Len(seqs) - 1)) \o seqs[Len(seqs)]

\* The bytes of entry e (from 0) of a file whose entries are entry_size wide.
EntryAt(file, e, entry_size) == SubSeq(file, e * entry_size + 1, (e + 1) * entry_size)

\* The number of whole entries of a file.
EntryCount(file, entry_size) == Len(file) \div entry_size

\* The f7 value given to entry j of table 7.
F7Of(j, kk) == (2 * j + 1) % Pow2(kk)

\* The payload (x value) given to entry j of table 1.
X1Of(j, kk) == (j + 1) % Pow2(kk)

\* The (pos, offset) pairs that reference two entries of a table of `below`
\* entries: both pos and pos + offset are valid positions.
RefPairs(below, kk) ==
    {<<p, o>> \in (0..(below - 1)) \X (0..(below - 1)) :
        p + o < below /\ p < Pow2(kk) /\ o < Pow2(kOffsetSize)}

\* The contents of a table of n entries over a table of `below` entries.
RefTables(n, below, kk) == [1..n -> RefPairs(below, kk)]

\* Table 7 as phase 1 writes it: f7 | pos | offset.
Table7File(refs, kk) ==
    Flatten([j \in 1..Len(refs) |->
        EncodeEntry(BitsAppend(BitsAppend(Bits(F7Of(j - 1, kk), kk), Bits(refs[j][1], kk)),
                               Bits(refs[j][2], kOffsetSize)),
                    GetMaxEntrySize(kk, 7))])

\* Tables 2..6 as phase 1 writes them: pos | offset from bit 0.
MidTableFile(refs, kk, t) ==
    Flatten([j \in 1..Len(refs) |->
        EncodeEntry(BitsAppend(Bits(refs[j][1], kk), Bits(refs[j][2], kOffsetSize)),
                    GetMaxEntrySize(kk, t))])

\* Table 1: an opaque payload per entry.
Table1File(n, kk) ==
    Flatten([j \in 1..n |-> EncodeEntry(Bits(X1Of(j - 1, kk), kk), GetMaxEntrySize(kk, 1))])

\* The size vectors of the inputs: a table with entries sits on a table with
\* entries, and at most MaxExtra entries exist beyond the first of each table.
RECURSIVE SumExtra(_, _)
SumExtra(sz, t) ==
    IF t = 0 THEN 0
    ELSE SumExtra(sz, t - 1) + (IF sz[t] > 1 THEN sz[t] - 1 ELSE 0)

SizeVectors ==
    {sz \in [Tables -> 0..(1 + MaxExtra)] :
        /\ \A t \in 2..7 : sz[t] > 0 => sz[t - 1] > 0
        /\ SumExtra(sz, 7) <= MaxExtra}

\* A sequence of n FALSE bits: std::vector<bool>::resize(n, false).
AllFalse(n) == [j \in 1..n |-> FALSE]

\* The state of a call that starts on the given files: lines 41-44 and 63-87.
StartCall(files, sizes, kk, msz, r) ==
    /\ k = kk
    /\ memory_size = msz
    /\ disk = files
    /\ orig = files
    /\ table_sizes = sizes
    /\ new_table_sizes = [t \in Tables |-> IF t = 7 THEN sizes[7] ELSE 0]
    /\ next_bitfield = AllFalse(sizes[6])
    /\ current_bitfield = << >>
    /\ table_index = 7
    /\ pc = "scan1"
    /\ read_index = 0
    /\ read_cursor = 0
    /\ write_counter = 0
    /\ sort_manager = << >>
    /\ read_counter = 0
    /\ write_cursor = 0
    /\ liveness = [t \in 1..6 |-> << >>]
    /\ run = r
    /\ strayed = FALSE

Init ==
    \E kk \in KValues, msz \in MemorySizes, sz \in SizeVectors :
      \E c7 \in RefTables(sz[7], sz[6], kk), c6 \in RefTables(sz[6], sz[5], kk),
         c5 \in RefTables(sz[5], sz[4], kk), c4 \in RefTables(sz[4], sz[3], kk),
         c3 \in RefTables(sz[3], sz[2], kk), c2 \in RefTables(sz[2], sz[1], kk) :
        LET mid == <<c2, c2, c3, c4, c5, c6>>
            files == [t \in Tables |->
                        IF t = 7 THEN Table7File(c7, kk)
                        ELSE IF t = 1 THEN Table1File(sz[1], kk)
                        ELSE MidTableFile(mid[t], kk, t)]
        IN  StartCall(files, sz, kk, msz, 1)

---------------------------------------------------------------------------
(* Bitfields and the rank index.                                           *)

\* std::vector<bool>::operator[] (read); an index past the end is out of
\* bounds (see OutOfBounds) and reads as false here.
BitAt(bitfield, j) == j < Len(bitfield) /\ bitfield[j + 1]

\* std::vector<bool>::operator[] (write of true); a store past the end does
\* not land in the bitfield.
SetBit(bitfield, j) ==
    IF j < Len(bitfield) THEN [bitfield EXCEPT ![j + 1] = TRUE] ELSE bitfield

\* An index the bitfield does not have: undefined behaviour in the code.
OutOfBounds(bitfield, j) == j >= Len(bitfield)

\* rank(p): the number of true bits at indices below p.
Rank(bitfield, p) == Cardinality({j \in 1..Min(p, Len(bitfield)) : bitfield[j]})

\* bitfield_index::lookup(pos, offset): the compacted pos and offset.
Lookup(bitfield, pos, offset) ==
    <<Rank(bitfield, pos), Rank(bitfield, pos + offset) - Rank(bitfield, pos)>>

\* The number of true bits of a bitfield.
PopCount(bitfield) == Cardinality({j \in 1..Len(bitfield) : bitfield[j]})

---------------------------------------------------------------------------
(* The chunked scans of one table, lines 78-124 and 156-230.               *)

\* entry_size of the table being processed (lines 79 and 259).
entry_size == GetMaxEntrySize(k, table_index)

\* read_buffer_size (line 82): the bytes of the whole entries that fit in
\* half of the memory.
ReadBufferSize(msz, es) == (msz \div 2) - ((msz \div 2) % es)

\* A variant of ToRead that always reads a whole buffer.
ToReadWholeBuffer(rbs, table_size, es, cursor) == rbs

\* to_read (lines 92 and 163): one buffer, or what is left of the table.
ToRead(rbs, table_size, es, cursor) == Min(rbs, table_size * es - cursor)

\* The entry the loop pointer i addresses at byte `off` of the read buffer.
BufferEntry(buf, off, es) ==
    [j \in 1..es |-> IF off + j <= Len(buf) THEN buf[off + j] ELSE 0]

\* Is the entry at read_index processed (lines 105 and 111, 177 and 185)?
Kept(ridx) == table_index = 7 \/ BitAt(current_bitfield, ridx)

\* entry_pos and entry_offset as the first scan reads them (lines 105-118).
FirstScanPos(i) ==
    IF table_index = 7 THEN SliceInt64FromBytes(i, k, k)
    ELSE SliceInt64FromBytes(i, 0, k)

FirstScanOffset(i) ==
    IF table_index = 7 THEN SliceInt64FromBytes(i, k + k, kOffsetSize)
    ELSE SliceInt64FromBytes(i, k, kOffsetSize)

\* A variant of MarkUsed that forgets the second reference.
MarkUsedPosOnly(bitfield, pos, offset) == SetBit(bitfield, pos)

\* Lines 120-122: mark the two matching entries as used.
MarkUsed(bitfield, pos, offset) == SetBit(SetBit(bitfield, pos), pos + offset)

\* The for loop of lines 99-123 over one buffer of entries.
RECURSIVE FirstScanLoop(_, _, _, _, _)
FirstScanLoop(buf, off, ridx, nb, ub) ==
    IF off >= Len(buf) THEN [read_index |-> ridx, next_bitfield |-> nb, ub |-> ub]
    ELSE LET i == BufferEntry(buf, off, entry_size)
             pos == FirstScanPos(i)
             offset == FirstScanOffset(i)
         IN  IF ~Kept(ridx)
             THEN FirstScanLoop(buf, off + entry_size, ridx + 1, nb,
                                ub \/ (table_index # 7 /\ OutOfBounds(current_bitfield, ridx)))
             ELSE FirstScanLoop(buf, off + entry_size, ridx + 1, MarkUsed(nb, pos, offset),
                                ub \/ OutOfBounds(nb, pos) \/ OutOfBounds(nb, pos + offset))

\* What a step that ran into undefined behaviour may do: the process dies,
\* or the stray access goes unnoticed and the call carries on (a stray
\* store is lost, a stray read sees no bit).
Outcomes(ub) == IF ub THEN {"abort", "continue"} ELSE {"continue"}

\* One iteration of the while loop of lines 88-124.
FirstScanChunk ==
    /\ pc = "scan1"
    /\ read_index < table_sizes[table_index]
    /\ LET read_buffer_size == ReadBufferSize(memory_size, entry_size)
           to_read == ToRead(read_buffer_size, table_sizes[table_index], entry_size, read_cursor)
           buf == DiskRead(disk[table_index], read_cursor, to_read)
           res == FirstScanLoop(buf, 0, read_index, next_bitfield, FALSE)
       IN  \E outcome \in Outcomes(res.ub) :
             IF outcome = "abort"
             THEN /\ pc' = "aborted"
                  /\ strayed' = TRUE
                  /\ UNCHANGED <<read_cursor, read_index, next_bitfield>>
             ELSE /\ pc' = pc
                  /\ strayed' = (strayed \/ res.ub)
                  /\ read_cursor' = read_cursor + to_read
                  /\ read_index' = res.read_index
                  /\ next_bitfield' = res.next_bitfield
    /\ UNCHANGED <<k, memory_size, disk, table_sizes, new_table_sizes, current_bitfield,
                   table_index, write_counter, sort_manager, read_counter, write_cursor,
                   orig, liveness, run>>

\* The first loop is left: lines 126-158 build the sort manager and the rank
\* index and rewind the table.
FirstScanDone ==
    /\ pc = "scan1"
    /\ read_index >= table_sizes[table_index]
    /\ pc' = "scan2"
    /\ sort_manager' = << >>
    /\ read_index' = 0
    /\ read_cursor' = 0
    /\ write_counter' = 0
    /\ UNCHANGED <<k, memory_size, disk, table_sizes, new_table_sizes, next_bitfield,
                   current_bitfield, table_index, read_counter, write_cursor, orig,
                   liveness, run, strayed>>

\* A variant of SecondScanPos that expects pos after a sort_key in tables 2..6.
SecondScanPosAfterKey(i) ==
    IF table_index = 7 THEN SliceInt64FromBytes(i, k, k)
    ELSE SliceInt64FromBytes(i, k + 1, k)

\* entry_pos, entry_offset and entry_f7 as the second scan reads them
\* (lines 177-189).
SecondScanPos(i) ==
    IF table_index = 7 THEN SliceInt64FromBytes(i, k, k)
    ELSE SliceInt64FromBytes(i, 0, k)

SecondScanOffset(i) ==
    IF table_index = 7 THEN SliceInt64FromBytes(i, k + k, kOffsetSize)
    ELSE SliceInt64FromBytes(i, k, kOffsetSize)

SecondScanF7(i) == IF table_index = 7 THEN SliceInt64FromBytes(i, 0, k) ELSE 0

\* Lines 201-206: the table-7 entry rebuilt over the bytes of the old one.
\* ToBytes overwrites the leading bytes of i, the rest of i stays.
NewEntry7(i, f7, pos, offset) ==
    LET new_entry == BitsAppend(BitsAppend(Bits(f7, k), Bits(pos, k)), Bits(offset, kOffsetSize))
        bytes == BitsToBytes(new_entry)
    IN  [j \in 1..Len(i) |-> IF j <= Len(bytes) THEN bytes[j] ELSE i[j]]

\* Lines 210-224: sort_key | pos | offset, zero bits up to the entry width.
NewEntry(sort_key, pos, offset, es) ==
    LET new_entry == BitsAppend(BitsAppend(Bits(sort_key, k + 1), Bits(pos, k)),
                                Bits(offset, kOffsetSize))
    IN  IF ByteAlign(new_entry.size) < es * 8
        THEN BitsAppend(new_entry, Bits(0, es * 8 - new_entry.size))
        ELSE new_entry

\* A variant of Remap that looks up in an index over current_bitfield.
RemapByCurrent(pos, offset) == Lookup(current_bitfield, pos, offset)

\* Lines 154 and 195: pos and offset looked up in the index that was built
\* over next_bitfield.
Remap(pos, offset) == Lookup(next_bitfield, pos, offset)

\* A variant of InPlaceOffset that writes one entry too far.
InPlaceOffsetNext(ridx, es) == (ridx + 1) * es

\* Line 207: the file offset of the in-place write of a table-7 entry.
InPlaceOffset(ridx, es) == ridx * es

\* A variant of NextWriteCounter that counts the dropped entries too.
NextWriteCounterAlways(wc, kept) == wc + 1

\* Line 228, reached by the entries that are not dropped.
NextWriteCounter(wc, kept) == IF kept THEN wc + 1 ELSE wc

\* The for loop of lines 170-229 over one buffer of entries.  `file` is the
\* table's file, `sm` the entries added to the sort manager.
RECURSIVE SecondScanLoop(_, _, _, _, _, _, _)
SecondScanLoop(buf, off, ridx, wc, sm, file, ub) ==
    IF off >= Len(buf)
    THEN [read_index |-> ridx, write_counter |-> wc, sort_manager |-> sm,
          file |-> file, ub |-> ub]
    ELSE LET i == BufferEntry(buf, off, entry_size)
             pos == SecondScanPos(i)
             offset == SecondScanOffset(i)
             f7 == SecondScanF7(i)
             new == Remap(pos, offset)
             stray == OutOfBounds(next_bitfield, pos) \/ OutOfBounds(next_bitfield, pos + offset)
         IN  IF ~Kept(ridx)
             THEN SecondScanLoop(buf, off + entry_size, ridx + 1, NextWriteCounter(wc, FALSE),
                                 sm, file,
                                 ub \/ (table_index # 7 /\ OutOfBounds(current_bitfield, ridx)))
             ELSE IF table_index = 7
             THEN SecondScanLoop(buf, off + entry_size, ridx + 1, NextWriteCounter(wc, TRUE), sm,
                                 DiskWrite(file, InPlaceOffset(ridx, entry_size),
                                           NewEntry7(i, f7, new[1], new[2])),
                                 ub \/ stray)
             ELSE SecondScanLoop(buf, off + entry_size, ridx + 1, NextWriteCounter(wc, TRUE),
                                 Append(sm, BitsToBytes(NewEntry(wc, new[1], new[2], entry_size))),
                                 file, ub \/ stray)

\* One iteration of the while loop of lines 159-230.
SecondScanChunk ==
    /\ pc = "scan2"
    /\ read_index < table_sizes[table_index]
    /\ LET read_buffer_size == ReadBufferSize(memory_size, entry_size)
           to_read == ToRead(read_buffer_size, table_sizes[table_index], entry_size, read_cursor)
           buf == DiskRead(disk[table_index], read_cursor, to_read)
           res == SecondScanLoop(buf, 0, read_index, write_counter, sort_manager,
                                 disk[table_index], FALSE)
       IN  \E outcome \in Outcomes(res.ub) :
             IF outcome = "abort"
             THEN /\ pc' = "aborted"
                  /\ strayed' = TRUE
                  /\ UNCHANGED <<read_cursor, read_index, write_counter, sort_manager, disk>>
             ELSE /\ pc' = pc
                  /\ strayed' = (strayed \/ res.ub)
                  /\ read_cursor' = read_cursor + to_read
                  /\ read_index' = res.read_index
                  /\ write_counter' = res.write_counter
                  /\ sort_manager' = res.sort_manager
                  /\ disk' = [disk EXCEPT ![table_index] = res.file]
    /\ UNCHANGED <<k, memory_size, table_sizes, new_table_sizes, next_bitfield,
                   current_bitfield, table_index, read_counter, write_cursor, orig,
                   liveness, run>>

---------------------------------------------------------------------------
(* The sort of tables 2..6 and the hand-over to the next table,            *)
(* lines 232-253 and 69-87.                                                *)

\* A variant of BeginBits that leaves the last bit of sort_key in the sort.
BeginBitsInsideKey == k

\* begin_bits handed to the SortManager (line 148): the sort skips sort_key.
BeginBits == k + 1

\* The bits of an entry the SortManager compares: all those from begin_bits.
SortBits(entry, begin_bits) ==
    SliceInt64FromBytes(entry, begin_bits, 8 * Len(entry) - begin_bits)

\* The permutations of 1..n.
Permutations(n) == {p \in [1..n -> 1..n] : \A a, b \in 1..n : a # b => p[a] # p[b]}

\* SortManager::FlushCache followed by ReadEntry: the entries added, in an
\* ascending order of the compared bits.  Nothing fixes the order of entries
\* that compare equal (it may depend on num_buckets and on the sort cache).
SortedOrders(sm, begin_bits) ==
    {[j \in 1..Len(sm) |-> sm[p[j]]] : p \in
        {q \in Permutations(Len(sm)) :
            \A a, b \in 1..Len(sm) :
                a < b => SortBits(sm[q[a]], begin_bits) <= SortBits(sm[q[b]], begin_bits)}}

\* Line 242: the file offset the i-th sorted entry is written at.
WriteBackOffset(i, es) == i * es

\* Lines 239-243: the sorted entries written back from the start of the file.
RECURSIVE WriteBackLoop(_, _, _, _)
WriteBackLoop(file, sorted, i, wc) ==
    IF i >= wc THEN file
    ELSE WriteBackLoop(DiskWrite(file, WriteBackOffset(i, entry_size), sorted[i + 1]),
                       sorted, i + 1, wc)

\* A variant of TruncatedLength that keeps the old length of the table.
TruncatedLengthOld(wc, es) == table_sizes[table_index] * es

\* Line 245: the length the rewritten table is truncated to.
TruncatedLength(wc, es) == wc * es

\* The second loop is left.  Tables 2..6 are sorted, written back and
\* truncated (lines 232-250); next_bitfield becomes current_bitfield (lines
\* 251-252) and the next table, or the compaction of table 1, starts.
FinishTable ==
    /\ pc = "scan2"
    /\ read_index >= table_sizes[table_index]
    /\ \E sorted \in SortedOrders(sort_manager, BeginBits) :
         IF table_index # 7
         THEN /\ disk' = [disk EXCEPT ![table_index] =
                            DiskTruncate(WriteBackLoop(disk[table_index], sorted, 0, write_counter),
                                         TruncatedLength(write_counter, entry_size))]
              /\ new_table_sizes' = [new_table_sizes EXCEPT ![table_index] = write_counter]
         ELSE UNCHANGED <<disk, new_table_sizes>>
    /\ current_bitfield' = next_bitfield
    /\ liveness' = [liveness EXCEPT ![table_index - 1] = next_bitfield]
    /\ table_index' = table_index - 1
    /\ IF table_index - 1 > 1
       THEN /\ pc' = "scan1"
            /\ next_bitfield' = AllFalse(table_sizes[table_index - 2])
       ELSE /\ pc' = "compact"
            /\ next_bitfield' = << >>
    /\ sort_manager' = << >>
    /\ read_index' = 0
    /\ read_cursor' = 0
    /\ write_counter' = 0
    /\ UNCHANGED <<k, memory_size, table_sizes, read_counter, write_cursor, orig, run,
                   strayed>>

---------------------------------------------------------------------------
(* The compaction of table 1, lines 255-288.                               *)

\* A variant of MustRewrite with the comparison the wrong way round.
MustRewriteBackward(wcur, rcur) == wcur > rcur

\* Line 276: is the entry written back (it is not when it has not moved)?
MustRewrite(wcur, rcur) == wcur # rcur

\* One iteration of the for loop of lines 267-281.
CompactStep ==
    /\ pc = "compact"
    /\ read_counter < table_sizes[1]
    /\ \E outcome \in Outcomes(OutOfBounds(current_bitfield, read_counter)) :
         IF outcome = "abort"
         THEN /\ pc' = "aborted"
              /\ strayed' = TRUE
              /\ UNCHANGED <<disk, write_counter, write_cursor, read_counter, read_cursor>>
         ELSE /\ pc' = pc
              /\ strayed' = (strayed \/ OutOfBounds(current_bitfield, read_counter))
              /\ read_counter' = read_counter + 1
              /\ read_cursor' = read_cursor + entry_size
              /\ IF ~BitAt(current_bitfield, read_counter)
                 THEN UNCHANGED <<disk, write_counter, write_cursor>>
                 ELSE LET entry == DiskRead(disk[1], read_cursor, entry_size)
                      IN  /\ disk' = IF MustRewrite(write_cursor, read_cursor)
                                     THEN [disk EXCEPT ![1] = DiskWrite(disk[1], write_cursor, entry)]
                                     ELSE disk
                          /\ write_counter' = write_counter + 1
                          /\ write_cursor' = write_cursor + entry_size
    /\ UNCHANGED <<k, memory_size, table_sizes, new_table_sizes, next_bitfield,
                   current_bitfield, table_index, read_index, sort_manager, orig,
                   liveness, run>>

\* Lines 283-288: truncate table 1 and return the new sizes.
Return ==
    /\ pc = "compact"
    /\ read_counter >= table_sizes[1]
    /\ disk' = [disk EXCEPT ![1] = DiskTruncate(disk[1], write_cursor)]
    /\ new_table_sizes' = [new_table_sizes EXCEPT ![1] = write_counter]
    /\ pc' = "done"
    /\ UNCHANGED <<k, memory_size, table_sizes, next_bitfield, current_bitfield,
                   table_index, read_index, read_cursor, write_counter, sort_manager,
                   read_counter, write_cursor, orig, liveness, run, strayed>>

Next ==
    \/ FirstScanChunk
    \/ FirstScanDone
    \/ SecondScanChunk
    \/ FinishTable
    \/ CompactStep
    \/ Return

Spec == Init /\ [][Next]_vars

\* A second call on the files and sizes a first call returned.
Rerun ==
    /\ pc = "done"
    /\ run = 1
    /\ k' = k
    /\ memory_size' = memory_size
    /\ disk' = disk
    /\ orig' = disk
    /\ table_sizes' = new_table_sizes
    /\ new_table_sizes' = [t \in Tables |-> IF t = 7 THEN new_table_sizes[7] ELSE 0]
    /\ next_bitfield' = AllFalse(new_table_sizes[6])
    /\ current_bitfield' = << >>
    /\ table_index' = 7
    /\ pc' = "scan1"
    /\ read_index' = 0
    /\ read_cursor' = 0
    /\ write_counter' = 0
    /\ sort_manager' = << >>
    /\ read_counter' = 0
    /\ write_cursor' = 0
    /\ liveness' = [t \in 1..6 |-> << >>]
    /\ run' = 2
    /\ strayed' = FALSE

\* A first call followed by a call on its output.
SpecTwice == Init /\ [][Next \/ Rerun]_vars

\* The steps of the call are taken as long as one is possible.
FairSpec == Spec /\ WF_vars(Next)

---------------------------------------------------------------------------
(* What the properties speak of: the tables as they were, and as they are. *)

\* Entry e (from 0) of table t as the call found it.
OrigEntry(t, e) == EntryAt(orig[t], e, GetMaxEntrySize(k, t))

\* pos and offset of that entry: after f7 in table 7, from bit 0 in the
\* tables 2..6 that phase 1 wrote.
OrigPos(t, e) ==
    IF t = 7 THEN SliceInt64FromBytes(OrigEntry(t, e), k, k)
    ELSE SliceInt64FromBytes(OrigEntry(t, e), 0, k)

OrigOffset(t, e) ==
    IF t = 7 THEN SliceInt64FromBytes(OrigEntry(t, e), k + k, kOffsetSize)
    ELSE SliceInt64FromBytes(OrigEntry(t, e), k, kOffsetSize)

\* Entry x (from 0) of table t as it is on disk now.
DiskEntry(t, x) == EntryAt(disk[t], x, GetMaxEntrySize(k, t))

\* The fields of an entry in the layout this phase writes: f7 | pos | offset
\* in table 7, sort_key | pos | offset in tables 2..6.
OutKey(t, x) == SliceInt64FromBytes(DiskEntry(t, x), 0, IF t = 7 THEN k ELSE k + 1)

OutPos(t, x) == SliceInt64FromBytes(DiskEntry(t, x), IF t = 7 THEN k ELSE k + 1, k)

OutOffset(t, x) ==
    SliceInt64FromBytes(DiskEntry(t, x), IF t = 7 THEN k + k ELSE k + 1 + k, kOffsetSize)

\* The entries of an output entry that follow pos and offset.
OutPadding(t, x) ==
    LET used == (IF t = 7 THEN k + k ELSE k + 1 + k) + kOffsetSize
    IN  SliceInt64FromBytes(DiskEntry(t, x), used, 8 * GetMaxEntrySize(k, t) - used)

\* The number of entries table t holds on disk now.
DiskCount(t) == EntryCount(disk[t], GetMaxEntrySize(k, t))

\* Table t has been through its two scans (and, below 7, its sort).
Processed(t) == table_index < t

\* The call has returned.
Returned == pc = "done"

\* Was entry e of table t kept?  Table 7 keeps all, the others what their
\* Liveness Set marks.
Retained(t, e) == t = 7 \/ BitAt(liveness[t], e)

\* The original indices of the kept entries of table t.
Survivors(t) == {e \in 0..(table_sizes[t] - 1) : Retained(t, e)}

\* The number of kept entries of table t before entry e.
SurvivorRank(t, e) == Cardinality({d \in Survivors(t) : d < e})

---------------------------------------------------------------------------
(* The properties of a call that has returned.                             *)

\* Has an entry of table i that was kept referenced entry e of table i-1?
Referenced(i, e) ==
    \E e2 \in Survivors(i) : OrigPos(i, e2) = e \/ OrigPos(i, e2) + OrigOffset(i, e2) = e

(* C1: when the call has returned, for every table i of 7..2 the Liveness  *)
(* Set that pruned table i-1 has one bit per entry of table i-1, and the   *)
(* bit of entry e is true if and only if some kept entry of table i (every *)
(* entry of table 7) had pos = e or pos + offset = e.                      *)
C1_LivenessIffReferenced ==
    Returned =>
        \A i \in 2..7 :
            /\ Len(liveness[i - 1]) = table_sizes[i - 1]
            /\ \A e \in 0..(table_sizes[i - 1] - 1) :
                   BitAt(liveness[i - 1], e) <=> Referenced(i, e)

\* A table below 7 lost an entry, the entry that one referenced is dropped
\* in the table below, and another entry of the table below is kept.
C1_Witness ==
    /\ Returned
    /\ \E i \in 2..6 :
        /\ \E e2 \in 0..(table_sizes[i] - 1) :
              ~Retained(i, e2) /\ ~BitAt(liveness[i - 1], OrigPos(i, e2))
        /\ \E e \in 0..(table_sizes[i - 1] - 1) : BitAt(liveness[i - 1], e)

(* C2: the sizes a call returns are, for the tables 1..6, at most the old  *)
(* sizes and equal to the number of true bits of the table's Liveness Set, *)
(* the file of the table is that many entries long, and table 7 keeps its  *)
(* size.                                                                   *)
C2_Sizes ==
    /\ new_table_sizes[7] = table_sizes[7]
    /\ Returned =>
           \A i \in 1..6 :
               /\ new_table_sizes[i] <= table_sizes[i]
               /\ new_table_sizes[i] = PopCount(liveness[i])
               /\ Len(disk[i]) = new_table_sizes[i] * GetMaxEntrySize(k, i)

\* The call has returned, and both table 1 and a table 2..6 have shrunk.
C2_Witness ==
    /\ Returned
    /\ new_table_sizes[1] < table_sizes[1]
    /\ \E i \in 2..6 : 0 < new_table_sizes[i] /\ new_table_sizes[i] < table_sizes[i]

\* The pos and offset that the rank index over the Liveness Set of table
\* i-1 gives to entry e of table i.
RemappedPos(i, e) == Rank(liveness[i - 1], OrigPos(i, e))

RemappedOffset(i, e) ==
    Rank(liveness[i - 1], OrigPos(i, e) + OrigOffset(i, e)) - Rank(liveness[i - 1], OrigPos(i, e))

(* C3: when the call has returned, the file of every table 2..6 holds the  *)
(* remapped (pos, offset) of every kept entry of the table, each as often  *)
(* as the kept entries carry it and nothing else, with zero bits after     *)
(* them, in ascending order of pos.                                        *)
C3_SortedByPos ==
    Returned =>
        \A i \in 2..6 :
            /\ DiskCount(i) = Cardinality(Survivors(i))
            /\ \A x \in 0..(DiskCount(i) - 1) :
                   /\ OutPadding(i, x) = 0
                   /\ Cardinality({y \in 0..(DiskCount(i) - 1) :
                          OutPos(i, y) = OutPos(i, x) /\ OutOffset(i, y) = OutOffset(i, x)})
                      = Cardinality({e \in Survivors(i) :
                          RemappedPos(i, e) = OutPos(i, x) /\ RemappedOffset(i, e) = OutOffset(i, x)})
            /\ \A x, y \in 0..(DiskCount(i) - 1) : x < y => OutPos(i, x) <= OutPos(i, y)

\* A table was sorted whose kept entries were not in ascending order of pos.
C3_Witness ==
    /\ Returned
    /\ \E i \in 2..6 :
          \E e1, e2 \in Survivors(i) : e1 < e2 /\ RemappedPos(i, e1) > RemappedPos(i, e2)

\* The Liveness Set of table 6: next_bitfield while table 7 is processed.
Table6Liveness == IF table_index = 7 THEN next_bitfield ELSE liveness[6]

\* Has the second scan of table 7 passed entry e?
Rewritten7(e) == Processed(7) \/ (pc = "scan2" /\ e < read_index)

(* C4: table 7 is never pruned or reordered.  Its file keeps its length;   *)
(* an entry the second scan has passed keeps its f7 and holds the pos and  *)
(* offset the rank index over table 6's Liveness Set gives for its old pos *)
(* and offset; an entry the second scan has not reached is as it was.      *)
C4_Table7InPlace ==
    /\ Len(disk[7]) = Len(orig[7])
    /\ new_table_sizes[7] = table_sizes[7]
    /\ (table_index = 7 \/ Returned) =>
        \A e \in 0..(table_sizes[7] - 1) :
           IF Rewritten7(e)
           THEN /\ OutKey(7, e) = SliceInt64FromBytes(OrigEntry(7, e), 0, k)
                /\ OutPos(7, e) = Rank(Table6Liveness, OrigPos(7, e))
                /\ OutOffset(7, e) = Rank(Table6Liveness, OrigPos(7, e) + OrigOffset(7, e))
                                     - Rank(Table6Liveness, OrigPos(7, e))
           ELSE DiskEntry(7, e) = OrigEntry(7, e)

\* The second scan of table 7 is under way: an entry has been rewritten to
\* a new pos, another has not been read yet.
C4_Witness ==
    /\ table_index = 7
    /\ pc = "scan2"
    /\ 0 < read_index
    /\ read_index < table_sizes[7]
    /\ \E e \in 0..(read_index - 1) : OutPos(7, e) # OrigPos(7, e)

(* C5: when the call has returned, table 1 holds the entries its Liveness  *)
(* Set marks, unchanged and in their old order, its new size is the number *)
(* of true bits and the file is that many entries long.                    *)
C5_Table1Compacted ==
    Returned =>
        /\ new_table_sizes[1] = PopCount(liveness[1])
        /\ Len(disk[1]) = new_table_sizes[1] * GetMaxEntrySize(k, 1)
        /\ \A e \in Survivors(1) : DiskEntry(1, SurvivorRank(1, e)) = OrigEntry(1, e)

\* Table 1 lost an entry that stood before one it kept.
C5_Witness ==
    /\ Returned
    /\ \E e1, e2 \in 0..(table_sizes[1] - 1) : e1 < e2 /\ ~Retained(1, e1) /\ Retained(1, e2)

(* C9: during the second scan of a table 2..6 write_counter is the number  *)
(* of kept entries among those passed; when the call has returned, the     *)
(* sort_keys in the file of every table 2..6 are 0..new size - 1, each     *)
(* once, and the entry with sort_key s carries the remapped pos and offset *)
(* of the s-th kept entry.                                                 *)
C9_DenseSortKeys ==
    /\ (pc = "scan2" /\ table_index # 7) =>
           write_counter = Cardinality({e \in 0..(read_index - 1) : BitAt(current_bitfield, e)})
    /\ Returned =>
           \A i \in 2..6 :
               /\ \A s \in 0..(new_table_sizes[i] - 1) :
                      Cardinality({x \in 0..(DiskCount(i) - 1) : OutKey(i, x) = s}) = 1
               /\ \A x \in 0..(DiskCount(i) - 1) :
                      \E e \in Survivors(i) :
                          /\ SurvivorRank(i, e) = OutKey(i, x)
                          /\ RemappedPos(i, e) = OutPos(i, x)
                          /\ RemappedOffset(i, e) = OutOffset(i, x)

\* A table was sorted that kept an entry standing after one it dropped.
C9_Witness ==
    /\ Returned
    /\ \E i \in 2..6 :
          \E e1, e2 \in 0..(table_sizes[i] - 1) :
              e1 < e2 /\ ~Retained(i, e1) /\ Retained(i, e2)

\* Is entry y of the file of table i the entry that stood at p?
IsOriginal(i, y, p) ==
    /\ p \in Survivors(i)
    /\ SurvivorRank(i, p) = OutKey(i, y)
    /\ RemappedPos(i, p) = OutPos(i, y)
    /\ RemappedOffset(i, p) = OutOffset(i, y)

\* Does the position `new`, held by an entry of table i, lead to the entry
\* of table i-1 that stood at p?
PointsTo(i, new, p) ==
    /\ new < new_table_sizes[i - 1]
    /\ IF i = 2
       THEN DiskEntry(1, new) = OrigEntry(1, p)
       ELSE \E y \in 0..(DiskCount(i - 1) - 1) :
                OutKey(i - 1, y) = new /\ IsOriginal(i - 1, y, p)

(* C10: references survive the compaction.  When the call has returned,    *)
(* the pos and pos + offset of every entry of a table 3..7 are below the   *)
(* new size of the table below and are the sort_keys of the two entries    *)
(* it referenced there; those of an entry of table 2 are the places in     *)
(* table 1 of the two entries it referenced.                               *)
C10_ReferencesPreserved ==
    Returned =>
        \A i \in 2..7 :
            \A x \in 0..(DiskCount(i) - 1) :
                \E e \in Survivors(i) :
                    /\ IF i = 7 THEN e = x ELSE SurvivorRank(i, e) = OutKey(i, x)
                    /\ PointsTo(i, OutPos(i, x), OrigPos(i, e))
                    /\ PointsTo(i, OutPos(i, x) + OutOffset(i, x), OrigPos(i, e) + OrigOffset(i, e))

\* The call has returned, and an entry of table 2 and an entry of a table
\* above it reference an entry that moved when the table below was compacted.
C10_Witness ==
    /\ Returned
    /\ \E e \in Survivors(2) : RemappedPos(2, e) # OrigPos(2, e)
    /\ \E i \in 3..7 : \E e \in Survivors(i) : RemappedPos(i, e) # OrigPos(i, e)

---------------------------------------------------------------------------
(* C6: a second call on the output of a first call.                        *)

\* Every entry of the tables 1..6 the call started on is referenced from
\* the table above.
InputFullyLive ==
    \A t \in 1..6 : \A e \in 0..(table_sizes[t] - 1) :
        \E e2 \in 0..(table_sizes[t + 1] - 1) :
            OrigPos(t + 1, e2) = e \/ OrigPos(t + 1, e2) + OrigOffset(t + 1, e2) = e

(* C6, as claimed: a second call on the files and sizes a first call left  *)
(* returns the sizes it was given and leaves every file as it was.  (It is *)
(* stated of the second calls that stay within their bitfields, so that a  *)
(* violation owes nothing to undefined behaviour.)                         *)
C6_SecondRunIsNoOp ==
    (run = 2 /\ Returned /\ ~strayed) => (new_table_sizes = table_sizes /\ disk = orig)

(* C6, amended: a call on tables in the layout of phase 1 in which every   *)
(* entry is live returns the sizes it was given, leaves tables 1 and 7 as  *)
(* they were and keeps the (pos, offset) pairs of every table 2..6, each   *)
(* as often as it occurred.                                                *)
C6_LiveInputKeepsReferences ==
    (run = 1 /\ Returned /\ InputFullyLive) =>
        /\ new_table_sizes = table_sizes
        /\ disk[1] = orig[1]
        /\ disk[7] = orig[7]
        /\ \A i \in 2..6 : \A e \in 0..(table_sizes[i] - 1) :
               Cardinality({x \in 0..(DiskCount(i) - 1) :
                   OutPos(i, x) = OrigPos(i, e) /\ OutOffset(i, x) = OrigOffset(i, e)})
               = Cardinality({d \in 0..(table_sizes[i] - 1) :
                   OrigPos(i, d) = OrigPos(i, e) /\ OrigOffset(i, d) = OrigOffset(i, e)})

\* A first call has returned from fully live tables, one of which 2..6
\* held two entries that did not stand in ascending order of pos.
C6_Witness ==
    /\ run = 1
    /\ Returned
    /\ InputFullyLive
    /\ \E i \in 2..6 : \E e1, e2 \in 0..(table_sizes[i] - 1) :
          e1 < e2 /\ OrigPos(i, e1) > OrigPos(i, e2)

---------------------------------------------------------------------------
(* C7: the result as a function of the tables, their sizes and k alone.    *)

\* The Liveness Set of table t, from the tables as the call found them.
RECURSIVE ExpectedLive(_)
ExpectedLive(t) ==
    IF t = 7 THEN [e \in 1..table_sizes[7] |-> TRUE]
    ELSE LET up == ExpectedLive(t + 1)
         IN  [e \in 1..table_sizes[t] |->
                \E e2 \in 1..table_sizes[t + 1] :
                    /\ up[e2]
                    /\ \/ OrigPos(t + 1, e2 - 1) = e - 1
                       \/ OrigPos(t + 1, e2 - 1) + OrigOffset(t + 1, e2 - 1) = e - 1]

\* The sequence of the members of a set of naturals, ascending.
RECURSIVE Ascending(_)
Ascending(set) ==
    IF set = {} THEN << >>
    ELSE LET least == CHOOSE a \in set : \A b \in set : a <= b
         IN  <<least>> \o Ascending(set \ {least})

\* The file of table t that the call is to leave behind.  Entries of a
\* table 2..6 with the same pos and offset stand in the order of their
\* sort_keys here.
ExpectedFile(t) ==
    LET live == ExpectedLive(t)
        kept == Ascending({e \in 0..(table_sizes[t] - 1) : live[e + 1]})
        below == IF t = 1 THEN << >> ELSE ExpectedLive(t - 1)
        newpos(e) == Rank(below, OrigPos(t, e))
        newoff(e) == Rank(below, OrigPos(t, e) + OrigOffset(t, e)) - Rank(below, OrigPos(t, e))
        es == GetMaxEntrySize(k, t)
        weight(s) == (newpos(kept[s]) * Pow2(kOffsetSize) + newoff(kept[s])) * (Len(kept) + 1) + s
        order == Ascending({weight(s) : s \in 1..Len(kept)})
        at(j) == CHOOSE s \in 1..Len(kept) : weight(s) = order[j]
    IN  IF t = 1 THEN Flatten([s \in 1..Len(kept) |-> OrigEntry(1, kept[s])])
        ELSE IF t = 7
        THEN Flatten([s \in 1..Len(kept) |->
                EncodeEntry(BitsAppend(BitsAppend(
                    Bits(SliceInt64FromBytes(OrigEntry(7, kept[s]), 0, k), k),
                    Bits(newpos(kept[s]), k)), Bits(newoff(kept[s]), kOffsetSize)), es)])
        ELSE Flatten([j \in 1..Len(kept) |->
                EncodeEntry(BitsAppend(BitsAppend(
                    Bits(at(j) - 1, k + 1),
                    Bits(newpos(kept[at(j)]), k)), Bits(newoff(kept[at(j)]), kOffsetSize)), es)])

ExpectedSizes == [t \in Tables |-> PopCount(ExpectedLive(t))]

\* No two live entries of a table 2..6 carry the same pos and offset.
NoEqualReferences ==
    \A t \in 2..6 :
        LET live == ExpectedLive(t)
        IN  \A e1, e2 \in 0..(table_sizes[t] - 1) :
                (e1 # e2 /\ live[e1 + 1] /\ live[e2 + 1]) =>
                    (OrigPos(t, e1) # OrigPos(t, e2) \/ OrigOffset(t, e1) # OrigOffset(t, e2))

---------------------------------------------------------------------------
(* C8: every call returns or aborts.                                       *)
C8_Terminates == <>(pc \in {"done", "aborted"})

===========================================================================
